---- MODULE Spec2Model ----
(***************************************************************************)
(* Logwell Python SDK, configuration validation (logwell/config.py).       *)
(*                                                                         *)
(* validate_config takes the caller's configuration dict, runs eight       *)
(* checks in a fixed order and returns a new dict merged with the          *)
(* module-level DEFAULT_CONFIG, or raises.  The model keeps the caller's   *)
(* dict, the module-level defaults and the outcome of the last call as     *)
(* state, and translates the two predicates and validate_config as         *)
(* operators over modelled Python values.                                  *)
(*                                                                         *)
(* Python values are records [t, n, d, s]: t is the Python type name, n/d  *)
(* the numeric value of an int, bool or float (d = 1 for int and bool), s  *)
(* the characters of a str or bytes (one-character strings) or the items   *)
(* of a list.  A dict is a function from its keys.                         *)
(***************************************************************************)
EXTENDS Integers, Sequences, FiniteSets, TLC

VARIABLES
    config,     \* the dict the caller holds and passes to validate_config
    defaults,   \* the module-level dict DEFAULT_CONFIG
    result,     \* outcome of the last call: a return value or a raised error
    arg,        \* the caller's record of what it passed to the last call
    pc,         \* "idle": a call can be made; "done": the last call has ended
    fed,        \* TRUE when config is the dict the previous call returned
    calls,      \* number of calls made
    first,      \* input and outcome of the first call
    between,    \* TRUE once a later call was made on another input
    key,        \* argument of a direct validate_api_key_format call
    keyRet      \* its return value ("none" before the call)

vars == <<config, defaults, result, arg, pc, fed, calls, first, between, key, keyRet>>

----------------------------------------------------------------------------
(* Bounds of the model *)

\* numeric option values are drawn from -MaxNum..MaxNum
MaxNum == 1
\* validate_config is called at most MaxCalls times in one behaviour
MaxCalls == 3
\* key bodies of KEY_BODY_LEN - KeySlack .. KEY_BODY_LEN + KeySlack characters
KeySlack == 1

----------------------------------------------------------------------------
(* Python values *)

NoneV == [t |-> "NoneType", n |-> 0, d |-> 1, s |-> <<>>]
BoolV(b) == [t |-> "bool", n |-> IF b THEN 1 ELSE 0, d |-> 1, s |-> <<>>]
IntV(i) == [t |-> "int", n |-> i, d |-> 1, s |-> <<>>]
\* the float num/den
FloatV(num, den) == [t |-> "float", n |-> num, d |-> den, s |-> <<>>]
NaNV == [t |-> "float", n |-> 0, d |-> 0, s |-> <<>>]
StrV(chars) == [t |-> "str", n |-> 0, d |-> 1, s |-> chars]
BytesV(chars) == [t |-> "bytes", n |-> 0, d |-> 1, s |-> chars]
ListV(items) == [t |-> "list", n |-> 0, d |-> 1, s |-> items]
\* a function object; n tells one callback from another
CallableV(i) == [t |-> "function", n |-> i, d |-> 1, s |-> <<>>]

IsNaN(v) == v.t = "float" /\ v.d = 0

\* bool(v): what `not v` negates
Truthy(v) ==
    CASE v.t = "NoneType" -> FALSE
      [] v.t \in {"bool", "int"} -> v.n # 0
      [] v.t = "float" -> IsNaN(v) \/ v.n # 0
      [] v.t \in {"str", "bytes", "list"} -> Len(v.s) > 0
      [] OTHER -> TRUE

\* `v <= 0` and `v < 0` raise TypeError unless v is an int, bool or float
OrderRaises(v) == v.t \notin {"bool", "int", "float"}

\* variant: `v < 0` written for `v <= 0`
LeZeroStrict(v) == ~IsNaN(v) /\ v.n < 0

\* `v <= 0` for a number (every comparison with NaN is False)
LeZero(v) == ~IsNaN(v) /\ v.n <= 0

\* `v < 0` for a number
LtZero(v) == ~IsNaN(v) /\ v.n < 0

----------------------------------------------------------------------------
(* Characters *)

Lower == {"a","b","c","d","e","f","g","h","i","j","k","l","m",
          "n","o","p","q","r","s","t","u","v","w","x","y","z"}
Upper == {"A","B","C","D","E","F","G","H","I","J","K","L","M",
          "N","O","P","Q","R","S","T","U","V","W","X","Y","Z"}
Digits == {"0","1","2","3","4","5","6","7","8","9"}

Rep(n, c) == [i \in 1..n |-> c]

\* s[from..] (1-based), empty when from > Len(s)
Drop(s, from) == IF from > Len(s) THEN <<>> ELSE SubSeq(s, from, Len(s))

\* s without the characters of `gone`
RECURSIVE Without(_, _)
Without(s, gone) ==
    IF s = <<>> THEN <<>>
    ELSE IF Head(s) \in gone THEN Without(Tail(s), gone)
    ELSE <<Head(s)>> \o Without(Tail(s), gone)

\* s.lstrip(chars)
RECURSIVE LStrip(_, _)
LStrip(s, chars) ==
    IF s # <<>> /\ Head(s) \in chars THEN LStrip(Tail(s), chars) ELSE s

\* 1-based index of the first character of s in `chars`, 0 when there is none
Find(s, chars) ==
    IF \E i \in 1..Len(s) : s[i] \in chars
    THEN CHOOSE i \in 1..Len(s) :
            s[i] \in chars /\ \A j \in 1..(i - 1) : s[j] \notin chars
    ELSE 0

----------------------------------------------------------------------------
(* validate_api_key_format *)

\* the literal prefix of API_KEY_REGEX
KEY_PREFIX == <<"l", "w", "_">>
\* the repetition count of API_KEY_REGEX
KEY_BODY_LEN == 32
\* the character class [A-Za-z0-9_-]
KeyClass == Lower \cup Upper \cup Digits \cup {"_", "-"}

\* `$` without re.MULTILINE, after `pos` characters are consumed: the end of
\* the string, or just before a newline that is the last character
AtDollar(s, pos) ==
    \/ pos = Len(s)
    \/ pos = Len(s) - 1 /\ s[Len(s)] = "\n"

\* API_KEY_REGEX.match(s) is not None; match() anchors at position 0
ApiKeyRegexMatch(s) ==
    LET p == Len(KEY_PREFIX)
        e == p + KEY_BODY_LEN
    IN  /\ Len(s) >= e
        /\ SubSeq(s, 1, p) = KEY_PREFIX
        /\ \A i \in (p + 1)..e : s[i] \in KeyClass
        /\ AtDollar(s, e)

validate_api_key_format(api_key) ==
    IF ~Truthy(api_key) \/ api_key.t # "str"
    THEN FALSE
    ELSE ApiKeyRegexMatch(api_key.s)

----------------------------------------------------------------------------
(* _is_valid_url, with urllib.parse.urlparse as it acts on the characters   *)
(* the model draws: ASCII only, so bytes.decode("ascii") succeeds and       *)
(* _checknetloc returns at once.                                            *)

\* _WHATWG_C0_CONTROL_OR_SPACE, the members the model draws
C0_CONTROL_OR_SPACE == {" ", "\t", "\n", "\r"}
\* _UNSAFE_URL_BYTES_TO_REMOVE
UNSAFE_URL_BYTES_TO_REMOVE == {"\t", "\r", "\n"}
\* scheme_chars
SchemeChars == Lower \cup Upper \cup Digits \cup {"+", "-", "."}

\* ipaddress.ip_address(host) accepts host as an IPv6 address, on the
\* bracketed hosts the model draws
IsIPv6Literal(host) == host = <<":", ":", "1">>

\* urlsplit(url) for a str: [raised, scheme, netloc]; raised is "" on return
UrlSplit(chars) ==
    LET url0 == Without(LStrip(chars, C0_CONTROL_OR_SPACE), UNSAFE_URL_BYTES_TO_REMOVE)
        i == Find(url0, {":"})
        hasScheme ==
            /\ i > 1
            /\ url0[1] \in Lower \cup Upper
            /\ \A j \in 1..(i - 1) : url0[j] \in SchemeChars
        scheme == IF hasScheme THEN SubSeq(url0, 1, i - 1) ELSE <<>>
        url1 == IF hasScheme THEN Drop(url0, i + 1) ELSE url0
        hasNetloc == Len(url1) >= 2 /\ url1[1] = "/" /\ url1[2] = "/"
        rest == Drop(url1, 3)
        delim == Find(rest, {"/", "?", "#"})
        netloc ==
            IF ~hasNetloc THEN <<>>
            ELSE IF delim = 0 THEN rest
            ELSE SubSeq(rest, 1, delim - 1)
        open == \E k \in 1..Len(netloc) : netloc[k] = "["
        close == \E k \in 1..Len(netloc) : netloc[k] = "]"
        afterOpen == Drop(netloc, Find(netloc, {"["}) + 1)
        closeAt == Find(afterOpen, {"]"})
        bracketed == IF closeAt = 0 THEN afterOpen ELSE SubSeq(afterOpen, 1, closeAt - 1)
    IN  IF hasNetloc /\ (open # close)
        THEN [raised |-> "ValueError", scheme |-> <<>>, netloc |-> <<>>]
        ELSE IF hasNetloc /\ open /\ close /\ ~IsIPv6Literal(bracketed)
        THEN [raised |-> "ValueError", scheme |-> <<>>, netloc |-> <<>>]
        ELSE [raised |-> "", scheme |-> scheme, netloc |-> netloc]

\* urlparse(url): _coerce_args decodes a non-str argument with .decode, which
\* only bytes-like values have; an empty non-str argument becomes ''
UrlParse(url) ==
    IF url.t = "str" THEN UrlSplit(url.s)
    ELSE IF ~Truthy(url) THEN UrlSplit(<<>>)
    ELSE IF url.t = "bytes" THEN UrlSplit(url.s)
    ELSE [raised |-> "AttributeError", scheme |-> <<>>, netloc |-> <<>>]

\* _is_valid_url: bool(result.scheme and result.netloc), False on
\* ValueError or AttributeError
IsValidUrl(url) ==
    LET r == UrlParse(url)
    IN  IF r.raised \in {"ValueError", "AttributeError"}
        THEN FALSE
        ELSE r.scheme # <<>> /\ r.netloc # <<>>

----------------------------------------------------------------------------
(* validate_config *)

RequiredKeys == {"api_key", "endpoint"}
DefaultedKeys == {"batch_size", "flush_interval", "max_queue_size",
                  "max_retries", "capture_source_location"}
CoreKeys == RequiredKeys \cup DefaultedKeys
PassKeys == {"service", "on_error", "on_flush"}

\* variant: a batch_size default that fails the batch_size check
DEFAULT_CONFIG_ZeroBatch ==
    [batch_size |-> IntV(0), flush_interval |-> FloatV(5, 1),
     max_queue_size |-> IntV(1000), max_retries |-> IntV(3),
     capture_source_location |-> BoolV(FALSE)]

DEFAULT_CONFIG ==
    [batch_size |-> IntV(50), flush_interval |-> FloatV(5, 1),
     max_queue_size |-> IntV(1000), max_retries |-> IntV(3),
     capture_source_location |-> BoolV(FALSE)]

EmptyDict == [k \in {} |-> NoneV]

\* outcomes of a call
NoOutcome == [kind |-> "none", code |-> "", message |-> "", value |-> EmptyDict]
Return(merged) == [kind |-> "return", code |-> "", message |-> "", value |-> merged]
RaiseLogwellError(message) ==
    [kind |-> "LogwellError", code |-> "INVALID_CONFIG", message |-> message,
     value |-> EmptyDict]
\* what `<=` or `<` raises between a non-number and int
RaiseTypeError ==
    [kind |-> "TypeError", code |-> "", message |-> "not supported between instances",
     value |-> EmptyDict]

\* variant: `d.get(k) or default`
GetOrDefault(d, k, default) ==
    IF k \in DOMAIN d /\ Truthy(d[k]) THEN d[k] ELSE default

\* d.get(k, default)
Get(d, k, default) == IF k \in DOMAIN d THEN d[k] ELSE default

\* variant: `if config.get("<key>")`
CopiedKeysIfTruthy(cfg) == {k \in PassKeys : k \in DOMAIN cfg /\ Truthy(cfg[k])}

\* the optional keys copied by the `if "<key>" in config` statements
CopiedKeys(cfg) == {k \in PassKeys : k \in DOMAIN cfg}

\* variant: merged built as {**config, ...}
MergedKeysAll(cfg) == CoreKeys \cup DOMAIN cfg

\* the keys of `merged` when it is returned
MergedKeys(cfg) == CoreKeys \cup CopiedKeys(cfg)

\* the dict `merged`: the literal, then the three optional keys
Merged(cfg, dflt) ==
    [k \in MergedKeys(cfg) |->
        IF k \in DefaultedKeys THEN Get(cfg, k, dflt[k]) ELSE cfg[k]]

\* `"<k>" in config and config["<k>"] <= 0` (or `< 0`): "raise" when the
\* comparison raises TypeError, "fail" when the condition is true
NumericCheck(cfg, k, negativeOnly) ==
    IF k \notin DOMAIN cfg THEN "pass"
    ELSE IF OrderRaises(cfg[k]) THEN "raise"
    ELSE IF negativeOnly /\ LtZero(cfg[k]) THEN "fail"
    ELSE IF ~negativeOnly /\ LeZero(cfg[k]) THEN "fail"
    ELSE "pass"

\* the four numeric checks in their order, then the merge
ValidateNumeric(cfg, dflt) ==
    LET b == NumericCheck(cfg, "batch_size", FALSE)
        f == NumericCheck(cfg, "flush_interval", FALSE)
        q == NumericCheck(cfg, "max_queue_size", FALSE)
        r == NumericCheck(cfg, "max_retries", TRUE)
    IN  IF b = "raise" THEN RaiseTypeError
        ELSE IF b = "fail" THEN RaiseLogwellError("batch_size must be positive")
        ELSE IF f = "raise" THEN RaiseTypeError
        ELSE IF f = "fail" THEN RaiseLogwellError("flush_interval must be positive")
        ELSE IF q = "raise" THEN RaiseTypeError
        ELSE IF q = "fail" THEN RaiseLogwellError("max_queue_size must be positive")
        ELSE IF r = "raise" THEN RaiseTypeError
        ELSE IF r = "fail" THEN RaiseLogwellError("max_retries must be non-negative")
        ELSE Return(Merged(cfg, dflt))

\* validate_config(config), reading the module-level defaults dflt
validate_config(cfg, dflt) ==
    IF "api_key" \notin DOMAIN cfg \/ ~Truthy(cfg["api_key"])
    THEN RaiseLogwellError("api_key is required")
    ELSE IF "endpoint" \notin DOMAIN cfg \/ ~Truthy(cfg["endpoint"])
    THEN RaiseLogwellError("endpoint is required")
    ELSE IF ~validate_api_key_format(cfg["api_key"])
    THEN RaiseLogwellError("Invalid API key format. Expected: lw_[32 characters]")
    ELSE IF ~IsValidUrl(cfg["endpoint"])
    THEN RaiseLogwellError("Invalid endpoint URL")
    ELSE ValidateNumeric(cfg, dflt)

\* variant: the defaults written into config itself (config.setdefault)
ConfigAfterInPlaceMerge(cfg, dflt) ==
    IF validate_config(cfg, dflt).kind = "return"
    THEN [k \in DOMAIN cfg \cup DefaultedKeys |->
            IF k \in DefaultedKeys THEN Get(cfg, k, dflt[k]) ELSE cfg[k]]
    ELSE cfg

\* the caller's dict after validate_config(config): the function only reads it
ConfigAfter(cfg, dflt) == cfg

\* DEFAULT_CONFIG after validate_config(config): the function only reads it
DefaultsAfter(cfg, dflt) == dflt

----------------------------------------------------------------------------
(* The inputs the model draws *)

\* marks a key the caller leaves out of the dict (not a Python value)
Absent == [t |-> "absent", n |-> 0, d |-> 1, s |-> <<>>]

\* the dict with the given values under the ten recognised keys and the
\* unrecognised key "timeout", without the keys that are Absent
MkConfig(a, e, b, f, q, r, c, s, oe, of, x) ==
    LET full == [api_key |-> a, endpoint |-> e, batch_size |-> b,
                 flush_interval |-> f, max_queue_size |-> q, max_retries |-> r,
                 capture_source_location |-> c, service |-> s, on_error |-> oe,
                 on_flush |-> of, timeout |-> x]
    IN  [k \in {j \in DOMAIN full : full[j] # Absent} |-> full[k]]

ValidKey == KEY_PREFIX \o Rep(KEY_BODY_LEN, "a")
ValidUrl == <<"h", ":", "/", "/", "x">>
Checkout == <<"c", "h", "e", "c", "k", "o", "u", "t">>

ApiKeys ==
    {Absent, NoneV, StrV(<<>>), IntV(7),
     StrV(<<"b", "a", "d", "-", "k", "e", "y">>),
     StrV(KEY_PREFIX \o Rep(KEY_BODY_LEN - 1, "a")),
     StrV(ValidKey), StrV(ValidKey \o <<"\n">>)}

Endpoints ==
    {Absent, NoneV, StrV(<<>>), IntV(8080),
     StrV(<<"x", ".", "c", "o">>),
     StrV(<<"h", ":", "x">>),
     StrV(<<"h", ":", "/", "/", "[", "x">>),
     StrV(<<"h", ":", "/", "/", "[", ":", ":", "1", "]">>),
     StrV(ValidUrl), StrV(<<" ">> \o ValidUrl), BytesV(ValidUrl)}

IntRange == {IntV(i) : i \in (-MaxNum)..MaxNum}
\* floats in thousandths
FloatRange == {FloatV(i, 1000) : i \in (-MaxNum)..MaxNum}

BatchSizes == {Absent, StrV(<<"1", "0">>), FloatV(3, 2), BoolV(FALSE)} \cup IntRange
FlushIntervals == {Absent, NaNV, IntV(1)} \cup FloatRange
QueueSizes == {Absent, NoneV} \cup IntRange
Retries == {Absent, ListV(<<"3">>)} \cup IntRange
Captures == {Absent, BoolV(TRUE), StrV(<<"y", "e", "s">>)}
Services == {Absent, NoneV, StrV(<<>>), StrV(Checkout)}
ErrorHooks == {Absent, NoneV, CallableV(1)}
FlushHooks == {Absent, CallableV(2)}
Unrecognised == {Absent, IntV(30)}

\* every combination of the required fields, with few options
RequiredSlice(cfg) ==
    \E a \in ApiKeys, e \in Endpoints, b \in {Absent, IntV(0)},
       r \in {Absent, IntV(-1)}, s \in {Absent, StrV(Checkout)},
       x \in Unrecognised :
        cfg = MkConfig(a, e, b, Absent, Absent, r, Absent, s, Absent, Absent, x)

\* valid required fields, every combination of the numeric options
NumericSlice(cfg) ==
    \E b \in BatchSizes, f \in FlushIntervals, q \in QueueSizes, r \in Retries,
       c \in Captures, x \in Unrecognised :
        cfg = MkConfig(StrV(ValidKey), StrV(ValidUrl), b, f, q, r, c,
                       Absent, Absent, Absent, x)

\* valid required fields, every combination of the optional keys copied over
PassSlice(cfg) ==
    \E b \in {Absent, IntV(0), IntV(1)}, r \in {Absent, IntV(0)},
       s \in Services, oe \in ErrorHooks, of \in FlushHooks, x \in Unrecognised :
        cfg = MkConfig(StrV(ValidKey), StrV(ValidUrl), b, Absent, Absent, r,
                       Absent, s, oe, of, x)

\* the inputs of the specification of repeated calls
RepeatSlice(cfg) ==
    \E a \in {StrV(ValidKey), StrV(<<"b", "a", "d", "-", "k", "e", "y">>)},
       b \in {Absent, IntV(0), IntV(1)}, r \in {Absent, IntV(0)},
       s \in {Absent, StrV(Checkout)} :
        cfg = MkConfig(a, StrV(ValidUrl), b, Absent, Absent, r, Absent, s,
                       Absent, Absent, Absent)

\* strings around the shape of an API key: a prefix, a body of n fill
\* characters with the character at position p (if any) replaced, a suffix
KeyPrefixes ==
    {KEY_PREFIX, <<"L", "W", "_">>, <<"l", "w", "-">>, <<"l", "w">>,
     <<" ">> \o KEY_PREFIX, <<"\n">> \o KEY_PREFIX, <<>>}
KeyFills == {"a", "Z", "0", "_", "-"}
KeyOddChars == {"!", " ", "\n", ".", "b"}
KeySuffixes == {<<>>, <<"\n">>, <<" ">>, <<"\n", "\n">>, <<"a", "\n">>, <<"\r">>}
KeyBody(n, c, p, x) == [i \in 1..n |-> IF i = p THEN x ELSE c]
NonKeyValues ==
    {NoneV, StrV(<<>>), IntV(0), IntV(7), BoolV(TRUE), BytesV(ValidKey),
     ListV(<<"l", "w", "_">>)}

KeyInput(v) ==
    \/ v \in NonKeyValues
    \/ \E pre \in KeyPrefixes, suf \in KeySuffixes, c \in KeyFills, x \in KeyOddChars,
          n \in (KEY_BODY_LEN - KeySlack)..(KEY_BODY_LEN + KeySlack) :
            \E p \in {0, 1, n} : v = StrV(pre \o KeyBody(n, c, p, x) \o suf)

----------------------------------------------------------------------------
(* The state machine *)

NoCall == [arg |-> EmptyDict, result |-> NoOutcome]

InitRest ==
    /\ defaults = DEFAULT_CONFIG
    /\ result = NoOutcome
    /\ arg = EmptyDict
    /\ pc = "idle"
    /\ fed = FALSE
    /\ calls = 0
    /\ first = NoCall
    /\ between = FALSE

Init ==
    /\ RequiredSlice(config) \/ NumericSlice(config) \/ PassSlice(config)
    /\ InitRest
    /\ key = NoneV
    /\ keyRet = "none"

\* the caller calls validate_config(config)
Validate ==
    /\ pc = "idle"
    /\ calls < MaxCalls
    /\ result' = validate_config(config, defaults)
    /\ arg' = config
    /\ config' = ConfigAfter(config, defaults)
    /\ defaults' = DefaultsAfter(config, defaults)
    /\ pc' = "done"
    /\ calls' = calls + 1
    /\ first' = IF calls = 0 THEN [arg |-> config, result |-> result'] ELSE first
    /\ between' = (between \/ (calls > 0 /\ config # first.arg))
    /\ UNCHANGED <<fed, key, keyRet>>

\* the caller takes the dict the call returned as its next input
FeedBack ==
    /\ pc = "done"
    /\ result.kind = "return"
    /\ config' = result.value
    /\ fed' = TRUE
    /\ pc' = "idle"
    /\ UNCHANGED <<defaults, result, arg, calls, first, between, key, keyRet>>

\* the caller builds another input
NewInput ==
    /\ pc = "done"
    /\ RepeatSlice(config')
    /\ fed' = FALSE
    /\ pc' = "idle"
    /\ UNCHANGED <<defaults, result, arg, calls, first, between, key, keyRet>>

\* a direct call validate_api_key_format(key)
CheckKey ==
    /\ keyRet = "none"
    /\ keyRet' = IF validate_api_key_format(key) THEN "True" ELSE "False"
    /\ UNCHANGED <<config, defaults, result, arg, pc, fed, calls, first, between, key>>

Next == Validate \/ FeedBack

Spec == Init /\ [][Next]_vars

\* repeated calls on changing inputs
InitCalls ==
    /\ RepeatSlice(config)
    /\ InitRest
    /\ key = NoneV
    /\ keyRet = "none"

NextCalls == Validate \/ FeedBack \/ NewInput

SpecCalls == InitCalls /\ [][NextCalls]_vars

\* direct calls of validate_api_key_format
InitKey ==
    /\ KeyInput(key)
    /\ keyRet = "none"
    /\ config = EmptyDict
    /\ InitRest

NextKey == CheckKey

SpecKey == InitKey /\ [][NextKey]_vars

----------------------------------------------------------------------------
(* Vocabulary of the properties, stated apart from the operators above *)

\* the documented shape of an API key: a str of "lw_" and 32 characters of
\* [A-Za-z0-9_-], 35 characters in all
HasKeyShape(v) ==
    /\ v.t = "str"
    /\ Len(v.s) = 35
    /\ v.s[1] = "l" /\ v.s[2] = "w" /\ v.s[3] = "_"
    /\ \A i \in 4..35 : v.s[i] \in Lower \cup Upper \cup Digits \cup {"_", "-"}

IsNumber(v) == v.t \in {"int", "bool", "float"} /\ ~IsNaN(v)
IsInteger(v) == v.t \in {"int", "bool"}

\* the documented constraint of each numeric option, as a predicate of a value
MeetsConstraint(k, v) ==
    CASE k \in {"batch_size", "max_queue_size"} -> IsInteger(v) /\ v.n > 0
      [] k = "flush_interval" -> IsNumber(v) /\ v.n > 0
      [] k = "max_retries" -> IsInteger(v) /\ v.n >= 0

NumericKeys == {"batch_size", "flush_interval", "max_queue_size", "max_retries"}

\* the message of each numeric check
NumericMessage(k) ==
    CASE k = "batch_size" -> "batch_size must be positive"
      [] k = "flush_interval" -> "flush_interval must be positive"
      [] k = "max_queue_size" -> "max_queue_size must be positive"
      [] k = "max_retries" -> "max_retries must be non-negative"

\* the eight checks in their documented order: TRUE when the check is violated
CheckViolated(i, c) ==
    CASE i = 1 -> "api_key" \notin DOMAIN c \/ ~Truthy(c["api_key"])
      [] i = 2 -> "endpoint" \notin DOMAIN c \/ ~Truthy(c["endpoint"])
      [] i = 3 -> "api_key" \in DOMAIN c /\ ~HasKeyShape(c["api_key"])
      [] i = 4 -> "endpoint" \in DOMAIN c /\ ~IsValidUrl(c["endpoint"])
      [] i = 5 -> "batch_size" \in DOMAIN c
                    /\ ~(IsNumber(c["batch_size"]) /\ c["batch_size"].n > 0)
      [] i = 6 -> "flush_interval" \in DOMAIN c
                    /\ ~(IsNumber(c["flush_interval"]) /\ c["flush_interval"].n > 0)
      [] i = 7 -> "max_queue_size" \in DOMAIN c
                    /\ ~(IsNumber(c["max_queue_size"]) /\ c["max_queue_size"].n > 0)
      [] i = 8 -> "max_retries" \in DOMAIN c
                    /\ ~(IsNumber(c["max_retries"]) /\ c["max_retries"].n >= 0)

CheckMessage(i) ==
    CASE i = 1 -> "api_key is required"
      [] i = 2 -> "endpoint is required"
      [] i = 3 -> "Invalid API key format. Expected: lw_[32 characters]"
      [] i = 4 -> "Invalid endpoint URL"
      [] i = 5 -> "batch_size must be positive"
      [] i = 6 -> "flush_interval must be positive"
      [] i = 7 -> "max_queue_size must be positive"
      [] i = 8 -> "max_retries must be non-negative"

\* the first violated check of c, 0 when c violates none
FirstViolated(c) ==
    IF \E i \in 1..8 : CheckViolated(i, c)
    THEN CHOOSE i \in 1..8 :
            CheckViolated(i, c) /\ \A j \in 1..(i - 1) : ~CheckViolated(j, c)
    ELSE 0

Returned == pc = "done" /\ result.kind = "return"

\* c without its unrecognised keys
Recognised(c) == [k \in DOMAIN c \cap (CoreKeys \cup PassKeys) |-> c[k]]

----------------------------------------------------------------------------
(* The claims *)

\* C1: whenever the input of a call violates at least one of the eight
\* checks, the call fails with InvalidConfig and the message of the first
\* violated check in the documented order.
C1_FailsWithFirstViolatedCheck ==
    (pc = "done" /\ FirstViolated(arg) # 0)
        => /\ result.kind = "LogwellError"
           /\ result.code = "INVALID_CONFIG"
           /\ result.message = CheckMessage(FirstViolated(arg))

\* C2: a call that returns gives back api_key and endpoint verbatim, and for
\* each of the five defaulted keys the supplied value when the key is in the
\* input and the documented default (50, 5.0, 1000, 3, false) otherwise.
C2_MergedOverDefaults ==
    Returned =>
        /\ result.value["api_key"] = arg["api_key"]
        /\ result.value["endpoint"] = arg["endpoint"]
        /\ \A k \in DefaultedKeys :
              result.value[k] =
                  IF k \in DOMAIN arg THEN arg[k]
                  ELSE CASE k = "batch_size" -> IntV(50)
                         [] k = "flush_interval" -> FloatV(5, 1)
                         [] k = "max_queue_size" -> IntV(1000)
                         [] k = "max_retries" -> IntV(3)
                         [] k = "capture_source_location" -> BoolV(FALSE)

\* a call returned on an input that supplies max_retries = 0 and
\* capture_source_location and omits the other three defaulted keys
C2_Witness ==
    /\ Returned
    /\ "max_retries" \in DOMAIN arg /\ arg["max_retries"] = IntV(0)
    /\ "capture_source_location" \in DOMAIN arg
    /\ DOMAIN arg \cap {"batch_size", "flush_interval", "max_queue_size"} = {}
    /\ result.value["batch_size"] = IntV(50)

\* C3: whenever a call returns, the returned dict holds every core key with
\* a valid value of its documented type.
C3_ReturnedValuesTyped ==
    Returned =>
        /\ CoreKeys \subseteq DOMAIN result.value
        /\ HasKeyShape(result.value["api_key"])
        /\ result.value["endpoint"].t = "str" /\ IsValidUrl(result.value["endpoint"])
        /\ \A k \in NumericKeys : MeetsConstraint(k, result.value[k])
        /\ result.value["capture_source_location"].t = "bool"

\* C4: every call that fails raises LogwellError with code INVALID_CONFIG
\* and one of the eight messages; no other error kind escapes.
C4_OnlyInvalidConfigEscapes ==
    (pc = "done" /\ result.kind # "return")
        => /\ result.kind = "LogwellError"
           /\ result.code = "INVALID_CONFIG"
           /\ result.message \in {CheckMessage(i) : i \in 1..8}

\* C5: validate_api_key_format(v) returns True exactly when v is a str of
\* "lw_" followed by 32 characters of [A-Za-z0-9_-] and nothing else.
C5_KeyFormatExact ==
    keyRet # "none" => (keyRet = "True" <=> HasKeyShape(key))

\* C6: validating the dict a call returned returns a dict identical to it.
C6_Idempotent ==
    (pc = "done" /\ fed) => (result.kind = "return" /\ result.value = arg)

\* the second call, on the returned dict of a first call whose input had a
\* service key and no batch_size, has ended
C6_Witness ==
    /\ pc = "done" /\ fed /\ calls = 2
    /\ "service" \in DOMAIN arg
    /\ "batch_size" \notin DOMAIN first.arg
    /\ result.kind = "return"

\* C7: when a call returns, each of service, on_error and on_flush is in the
\* output if and only if it is in the input, with the input's value.
C7_PassThrough ==
    Returned =>
        \A k \in PassKeys :
            /\ k \in DOMAIN result.value <=> k \in DOMAIN arg
            /\ k \in DOMAIN arg => result.value[k] = arg[k]

\* a call returned on an input with an empty service, a null on_error and
\* no on_flush
C7_Witness ==
    /\ Returned
    /\ "service" \in DOMAIN arg /\ arg["service"] = StrV(<<>>)
    /\ "on_error" \in DOMAIN arg /\ arg["on_error"] = NoneV
    /\ "on_flush" \notin DOMAIN arg
    /\ "service" \in DOMAIN result.value

\* C8: with a well-shaped api_key, a valid endpoint and the other numeric
\* options valid or absent, a supplied numeric option that is <= 0 (< 0 for
\* max_retries) fails the call with that option's message, and one that is
\* > 0 (>= 0 for max_retries) lets the call return with the value unchanged.
C8_NumericBoundaries ==
    (/\ pc = "done"
     /\ RequiredKeys \subseteq DOMAIN arg
     /\ HasKeyShape(arg["api_key"])
     /\ arg["endpoint"].t = "str" /\ IsValidUrl(arg["endpoint"]))
    => \A k \in NumericKeys \cap DOMAIN arg :
          (/\ IsNumber(arg[k])
           /\ \A o \in (NumericKeys \cap DOMAIN arg) \ {k} : MeetsConstraint(o, arg[o]))
          => IF arg[k].n < 0 \/ (arg[k].n = 0 /\ k # "max_retries")
             THEN /\ result.kind = "LogwellError"
                  /\ result.code = "INVALID_CONFIG"
                  /\ result.message = NumericMessage(k)
             ELSE MeetsConstraint(k, arg[k])
                    => (result.kind = "return" /\ result.value[k] = arg[k])

\* a call with batch_size = 0 and max_retries = 0 and no other numeric
\* option was rejected for batch_size
C8_Witness ==
    /\ pc = "done"
    /\ NumericKeys \cap DOMAIN arg = {"batch_size", "max_retries"}
    /\ arg["batch_size"] = IntV(0) /\ arg["max_retries"] = IntV(0)
    /\ arg["api_key"] = StrV(ValidKey)
    /\ result.message = "batch_size must be positive"

\* C9: a call changes neither the dict it is given nor DEFAULT_CONFIG, and
\* a call on the input of the first call has the outcome of the first call,
\* whatever calls were made in between.
C9_NoEffect ==
    /\ defaults =
          [batch_size |-> IntV(50), flush_interval |-> FloatV(5, 1),
           max_queue_size |-> IntV(1000), max_retries |-> IntV(3),
           capture_source_location |-> BoolV(FALSE)]
    /\ pc = "done" => config = arg
    /\ (pc = "done" /\ arg = first.arg) => result = first.result

\* the third call, on the input of the first, returned after a call on
\* another input
C9_Witness ==
    /\ pc = "done" /\ calls = 3 /\ between
    /\ arg = first.arg
    /\ result.kind = "return"

\* C10: the keys of a returned dict are the seven core keys and those of
\* service, on_error, on_flush in the input, and the outcome of a call is
\* the outcome on the input without its unrecognised keys.
C10_UnrecognisedIgnored ==
    /\ Returned =>
          DOMAIN result.value = CoreKeys \cup (PassKeys \cap DOMAIN arg)
    /\ pc = "done" => result = validate_config(Recognised(arg), defaults)

\* a call returned on an input with the unrecognised key timeout
C10_Witness ==
    /\ Returned
    /\ "timeout" \in DOMAIN arg
    /\ "timeout" \notin DOMAIN result.value

====
